---- MODULE Spec2Model ----
(***************************************************************************)
(* The reflector of submissions/LoadBalanceRR/stub/reflect.py: a           *)
(* BaseHTTPRequestHandler subclass with do_GET / do_POST (do_PUT and       *)
(* do_DELETE are aliases) served by a plain HTTPServer.                    *)
(*                                                                         *)
(* The handler bodies are translated from reflect.py.  What they call and  *)
(* inherit (send_response, send_header, end_headers, send_error,           *)
(* parse_request, handle, serve_forever) is the Python standard library's  *)
(* http.server / socketserver; it is modelled here as far as the calls of  *)
(* reflect.py reach it, and each such definition names the line of         *)
(* reflect.py that calls or inherits it.                                   *)
(*                                                                         *)
(* Requests are the requests of the reflector's wire protocol: a request   *)
(* line "METHOD path HTTP/1.x", headers, a blank line, a body.  Request    *)
(* lines the library rejects or treats as HTTP/0.9 before it dispatches    *)
(* (no version, a version >= 2.0, over-long lines) are not requests of     *)
(* this model, except where body bytes are read in place of a request      *)
(* line.                                                                   *)
(***************************************************************************)
EXTENDS Integers, Sequences, FiniteSets, TLC

VARIABLES
    pc,              \* "start" before main() has run, "serving" in serve_forever
    argv,            \* the command line after the program name
    server_address,  \* the address the listening socket is bound to
    pending,         \* connections in the listen queue, not yet accepted
    handlers,        \* slot -> the RequestHandler serving a connection, or Closed
    last,            \* history: the latest exchange on a connection still open
    kept             \* history: one exchange made so far, chosen arbitrarily

vars == <<pc, argv, server_address, pending, handlers, last, kept>>

----------------------------------------------------------------------------
(* Bounds of the model *)

MaxClock == 1       \* the wall clock reads 0 .. MaxClock
MaxPending == 2     \* connections waiting in the listen queue
MaxSlots == 2       \* connections that can be open at once
MaxStream == 3      \* items a client writes on one connection

(* Program constants *)

DefaultPort == 8080

----------------------------------------------------------------------------
(* Inputs *)

Methods == {"GET", "POST", "PUT", "DELETE", "HEAD", "PATCH"}
Paths == {"/anything", "/x?y=1"}
Versions == {"HTTP/1.0", "HTTP/1.1"}
HeaderSets == { <<>>, << <<"Connection", "keep-alive">> >> }

\* What a request line and the header lines after it spell.
Heads == [command : Methods, path : Paths, version : Versions, headers : HeaderSets]

\* The command lines: no flag, -p <int>, --port <int>.
ArgvSet == { <<>>, <<"-p", 9000>>, <<"--port", 8081>> }

\* A connection's bytes, as the reader sees them: a "head" is a request line
\* with its headers and blank line, "data" is any other text.  inBody records
\* whether the client wrote the item as part of a request body.
Item(k, b) == [kind |-> k, inBody |-> b]

RECURSIVE SeqsUpTo(_, _)
SeqsUpTo(S, n) ==
    IF n = 0 THEN { <<>> }
    ELSE LET shorter == SeqsUpTo(S, n - 1)
         IN  shorter \cup { Append(s, x) : s \in shorter, x \in S }

\* What a client writes on a connection: one or more requests back to back,
\* each a head followed by a body of any length.  A body is any text; a line
\* of it may itself spell a request.
Streams ==
    { <<Item("head", FALSE)>> \o rest :
        rest \in SeqsUpTo({ Item("head", FALSE), Item("data", TRUE), Item("head", TRUE) },
                          MaxStream - 1) }

\* The times the wall clock can read when a response is made.
Times == 0 .. MaxClock

Slots == 1 .. MaxSlots

Closed == [closed |-> TRUE]
NoExchange == [none |-> TRUE]

----------------------------------------------------------------------------
(* Class attributes of RequestHandler.  reflect.py overrides none of them,   *)
(* so they are BaseHTTPRequestHandler's.                                     *)

protocol_version_keepalive == "HTTP/1.1"

protocol_version == "HTTP/1.0"

default_request_version == "HTTP/0.9"

version_string == "BaseHTTP/0.6 Python/3"

date_time_string(t) == "Date@" \o ToString(t)

\* BaseHTTPRequestHandler.responses: the short message of a status code.
responses(code) ==
    CASE code = 200 -> "OK"
      [] code = 400 -> "Bad Request"
      [] code = 501 -> "Not Implemented"
      [] OTHER -> "???"

----------------------------------------------------------------------------
(* The handler object.  rfile is what is still unread on the connection,     *)
(* headers_buffer the response lines not yet flushed, wfile what has been    *)
(* written to the client.                                                    *)

StatusLine(v, code, msg) == [line |-> "status", version |-> v, code |-> code, message |-> msg]
HeaderLine(k, v) == [line |-> "header", name |-> k, value |-> v]
BlankLine == [line |-> "blank"]
BodyChunk(d) == [line |-> "body", data |-> d]

send_response_only(self, code, message) ==
    IF self.request_version # "HTTP/0.9"
    THEN [self EXCEPT !.headers_buffer =
              Append(@, StatusLine(protocol_version, code, message))]
    ELSE self

send_header(self, keyword, value) ==
    LET buffered == IF self.request_version # "HTTP/0.9"
                    THEN [self EXCEPT !.headers_buffer = Append(@, HeaderLine(keyword, value))]
                    ELSE self
    IN  IF keyword = "Connection" /\ value = "close"
        THEN [buffered EXCEPT !.close_connection = TRUE]
        ELSE IF keyword = "Connection" /\ value = "keep-alive"
        THEN [buffered EXCEPT !.close_connection = FALSE]
        ELSE buffered

send_response_message(self, code, message) ==
    send_header(
        send_header(send_response_only(self, code, message), "Server", version_string),
        "Date", date_time_string(self.now))

send_response(self, code) == send_response_message(self, code, responses(code))

end_headers(self) ==
    IF self.request_version # "HTTP/0.9"
    THEN [self EXCEPT !.wfile = @ \o self.headers_buffer \o <<BlankLine>>,
                      !.headers_buffer = <<>>]
    ELSE self

\* The HTML page of send_error, as the text parts that vary.
error_body(code, message) == <<"Error response", ToString(code), message>>

send_error(self, code, message) ==
    LET body == error_body(code, message)
        s1 == send_response_message(self, code, message)
        s2 == send_header(s1, "Connection", "close")
        s3 == send_header(s2, "Content-Type", "text/html;charset=utf-8")
        s4 == send_header(s3, "Content-Length", ToString(Len(body)))
        s5 == end_headers(s4)
    IN  IF self.command # "HEAD"
        THEN [s5 EXCEPT !.wfile = Append(@, BodyChunk(body))]
        ELSE s5

----------------------------------------------------------------------------
(* reflect.py, class RequestHandler *)

do_GET_no_cookie(self) ==
    end_headers(send_response(self, 200))

do_GET_reflects_path(self) ==
    end_headers(send_header(send_response(self, 200), "Set-Cookie", self.path))

do_GET_extra_header(self) ==
    end_headers(send_header(
        send_header(send_response(self, 200), "Set-Cookie", "foo=bar"),
        "Content-Length", "0"))

do_GET(self) ==
    LET request_path == self.path
    IN  end_headers(send_header(send_response(self, 200), "Set-Cookie", "foo=bar"))

do_POST_reads_body(self) ==
    LET request_path == self.path
        unread == self.rfile
        body == SelectSeq(unread, LAMBDA i : i.inBody)
    IN  end_headers(send_response(
            [self EXCEPT !.rfile = SubSeq(unread, Len(body) + 1, Len(unread))], 200))

do_POST_echoes_body(self) ==
    LET s == end_headers(send_response(self, 200))
    IN  [s EXCEPT !.wfile = Append(@, BodyChunk(self.rfile))]

do_POST_sets_cookie(self) == do_GET(self)

do_POST(self) ==
    LET request_path == self.path
    IN  end_headers(send_response(self, 200))

do_PUT(self) == do_POST(self)

do_DELETE(self) == do_GET(self)

\* hasattr(self, 'do_' + command): the do_ methods the class defines.
HandlerNames == {"GET", "POST", "PUT", "DELETE"}

method(self) ==
    CASE self.command = "GET" -> do_GET(self)
      [] self.command = "POST" -> do_POST(self)
      [] self.command = "PUT" -> do_PUT(self)
      [] self.command = "DELETE" -> do_DELETE(self)

----------------------------------------------------------------------------
(* BaseHTTPRequestHandler: reading and dispatching one request *)

VersionNumber(v) ==
    CASE v = "HTTP/0.9" -> 9
      [] v = "HTTP/1.0" -> 10
      [] v = "HTTP/1.1" -> 11

Connection(headers) ==
    IF \E i \in 1 .. Len(headers) : headers[i][1] = "Connection"
    THEN (CHOOSE h \in { headers[i] : i \in 1 .. Len(headers) } : h[1] = "Connection")[2]
    ELSE ""

\* A fresh view of the handler for one request: raw is the line read as the
\* request line, the rest of the connection stays in rfile.
\* now is the wall clock's reading while the request is handled.
NewRequest(h, t) ==
    [command |-> "", path |-> "", request_version |-> default_request_version,
     headers |-> <<>>, rfile |-> Tail(h.rfile), headers_buffer |-> <<>>,
     wfile |-> <<>>, close_connection |-> h.close_connection, now |-> t]

\* parse_request: raw is the item read from the connection, head what it
\* spells when it is a request line with headers.
parse_request(self, raw, head) ==
    IF raw.kind # "head"
    THEN [ok |-> FALSE,
          self |-> send_error([self EXCEPT !.close_connection = TRUE],
                              400, "Bad request syntax")]
    ELSE LET s1 == [self EXCEPT
                       !.close_connection =
                           ~ (VersionNumber(head.version) >= 11
                              /\ VersionNumber(protocol_version) >= 11),
                       !.request_version = head.version,
                       !.command = head.command,
                       !.path = head.path,
                       !.headers = head.headers]
             conntype == Connection(head.headers)
         IN  [ok |-> TRUE,
              self |-> IF conntype = "close"
                       THEN [s1 EXCEPT !.close_connection = TRUE]
                       ELSE IF conntype = "keep-alive" /\ VersionNumber(protocol_version) >= 11
                       THEN [s1 EXCEPT !.close_connection = FALSE]
                       ELSE s1]

dispatch_catch_all(self) ==
    IF self.command \notin HandlerNames THEN do_GET(self) ELSE method(self)

\* The rest of handle_one_request once the request is parsed.
dispatch(self) ==
    IF self.command \notin HandlerNames
    THEN send_error(self, 501, "Unsupported method ('" \o self.command \o "')")
    ELSE method(self)

\* What the client reads back: status line, headers up to the blank line, body.
Blank(wfile) ==
    IF \E i \in 1 .. Len(wfile) : wfile[i].line = "blank"
    THEN CHOOSE i \in 1 .. Len(wfile) :
             wfile[i].line = "blank" /\ \A j \in 1 .. i - 1 : wfile[j].line # "blank"
    ELSE Len(wfile) + 1

Status(wfile) ==
    IF wfile # <<>> /\ wfile[1].line = "status" THEN wfile[1].code ELSE 0

ResponseHeaders(wfile) ==
    LET b == Blank(wfile)
    IN  [i \in 1 .. (IF b >= 2 THEN b - 2 ELSE 0) |-> <<wfile[i + 1].name, wfile[i + 1].value>>]

ResponseBody(wfile) == SubSeq(wfile, Blank(wfile) + 1, Len(wfile))

----------------------------------------------------------------------------
(* The state machine *)

Init ==
    /\ pc = "start"
    /\ argv \in ArgvSet
    /\ server_address = <<>>
    /\ pending = 0
    /\ handlers = [s \in Slots |-> Closed]
    /\ last = NoExchange
    /\ kept = NoExchange

\* ArgumentParser with -p/--port, type=int, default=8080.
parse_args(args) ==
    IF args # <<>> /\ args[1] \in {"-p", "--port"}
    THEN [port |-> args[2]]
    ELSE [port |-> DefaultPort]

bind_default_port(port) == <<"0.0.0.0", DefaultPort>>

\* HTTPServer(('0.0.0.0', port), RequestHandler): the address it binds.
HTTPServer(port) == <<"0.0.0.0", port>>

\* __main__ and main(): parse the flag, bind, listen, enter serve_forever.
main ==
    /\ pc = "start"
    /\ server_address' = HTTPServer(parse_args(argv).port)
    /\ pc' = "serving"
    /\ UNCHANGED <<argv, pending, handlers, last, kept>>

\* A client connects; the kernel queues the connection on the listening socket.
Connect ==
    /\ pc = "serving"
    /\ pending < MaxPending
    /\ pending' = pending + 1
    /\ UNCHANGED <<pc, argv, server_address, handlers, last, kept>>

Open == { s \in Slots : handlers[s] # Closed }

process_request_in_thread == TRUE

\* serve_forever of a plain HTTPServer: process_request runs the handler and
\* shutdown_request inline, so the loop is back at accept only once they are done.
serve_forever_ready == Open = {}

\* get_request + finish_request: accept a queued connection and construct
\* its RequestHandler, whose handle() starts with close_connection = True.
Accept ==
    /\ pc = "serving"
    /\ pending > 0
    /\ serve_forever_ready
    /\ Open # Slots
    /\ \E stream \in Streams :
         LET s == CHOOSE x \in Slots \ Open : \A y \in Slots \ Open : x <= y
         IN  handlers' = [handlers EXCEPT ![s] =
                 [rfile |-> stream, close_connection |-> TRUE, handled |-> 0]]
    /\ pending' = pending - 1
    /\ UNCHANGED <<pc, argv, server_address, last, kept>>

\* History of one exchange: the line read as the request line, the request
\* line as parsed, what was unread on the connection when the do_ method
\* started and when it had responded, and the bytes written to the client.
Exchange(s, h, raw, parsed, done) ==
    [slot |-> s,
     nth |-> h.handled + 1,
     raw |-> raw,
     command |-> parsed.self.command,
     path |-> parsed.self.path,
     dispatched |-> parsed.ok,
     unread_before |-> parsed.self.rfile,
     unread_after |-> done.rfile,
     wfile |-> done.wfile]

Summary(x) == [command |-> x.command, wfile |-> x.wfile]

\* handle(): handle_one_request, repeated while close_connection is false.
HandleOneRequest(s) ==
    /\ handlers[s] # Closed
    /\ handlers[s].handled = 0 \/ ~ handlers[s].close_connection
    /\ LET h == handlers[s]
       IN  IF h.rfile = <<>>
           THEN /\ handlers' = [handlers EXCEPT ![s].close_connection = TRUE,
                                                ![s].handled = h.handled + 1]
                /\ UNCHANGED <<last, kept>>
           ELSE \E head \in Heads, t \in Times :
                  LET raw == Head(h.rfile)
                      parsed == parse_request(NewRequest(h, t), raw, head)
                      done == IF parsed.ok THEN dispatch(parsed.self) ELSE parsed.self
                  IN  /\ handlers' = [handlers EXCEPT ![s] =
                             [rfile |-> done.rfile,
                              close_connection |-> done.close_connection,
                              handled |-> h.handled + 1]]
                      /\ last' = Exchange(s, h, raw, parsed, done)
                      /\ kept' \in {kept, Summary(last')}
    /\ UNCHANGED <<pc, argv, server_address, pending>>

\* shutdown_request: handle() has returned, the connection is closed.
ShutdownRequest(s) ==
    /\ handlers[s] # Closed
    /\ handlers[s].handled > 0
    /\ handlers[s].close_connection
    /\ handlers' = [handlers EXCEPT ![s] = Closed]
    /\ last' = IF last # NoExchange /\ last.slot = s THEN NoExchange ELSE last
    /\ UNCHANGED <<pc, argv, server_address, pending, kept>>

Next ==
    \/ main
    \/ Connect
    \/ Accept
    \/ \E s \in Slots : HandleOneRequest(s)
    \/ \E s \in Slots : ShutdownRequest(s)

Spec == Init /\ [][Next]_vars

----------------------------------------------------------------------------
(* Properties *)

HeaderNames(wfile) ==
    [i \in 1 .. Len(ResponseHeaders(wfile)) |-> ResponseHeaders(wfile)[i][1]]

HasHeader(wfile, k, v) ==
    \E i \in 1 .. Len(ResponseHeaders(wfile)) : ResponseHeaders(wfile)[i] = <<k, v>>

HasHeaderNamed(wfile, k) ==
    \E i \in 1 .. Len(ResponseHeaders(wfile)) : ResponseHeaders(wfile)[i][1] = k

\* The bytes written, with the value of the Date header blanked.
EraseDate(wfile) ==
    [i \in 1 .. Len(wfile) |->
        IF wfile[i].line = "header" /\ wfile[i].name = "Date"
        THEN HeaderLine("Date", "")
        ELSE wfile[i]]

\* C1: every GET or DELETE request, to any path, is answered with status 200
\* and the header Set-Cookie: foo=bar.
C1_GetDeleteCookie ==
    (last # NoExchange /\ last.command \in {"GET", "DELETE"})
        => /\ Status(last.wfile) = 200
           /\ HasHeader(last.wfile, "Set-Cookie", "foo=bar")

C1_Witness ==
    /\ last # NoExchange
    /\ last.command = "DELETE"
    /\ last.path = "/x?y=1"
    /\ Status(last.wfile) = 200

\* C2: every POST or PUT request, to any path and with any body, is answered
\* with status 200 and no Set-Cookie header.
C2_PostPutNoCookie ==
    (last # NoExchange /\ last.command \in {"POST", "PUT"})
        => /\ Status(last.wfile) = 200
           /\ ~ HasHeaderNamed(last.wfile, "Set-Cookie")

C2_Witness ==
    /\ last # NoExchange
    /\ last.command = "PUT"
    /\ last.unread_before # <<>>
    /\ Head(last.unread_before).inBody
    /\ Status(last.wfile) = 200

C5_OtherMethod501 ==
    (last # NoExchange /\ last.dispatched
       /\ last.command \notin {"GET", "POST", "PUT", "DELETE"})
        => /\ Status(last.wfile) = 501
           /\ ~ HasHeaderNamed(last.wfile, "Set-Cookie")

C5_Witness ==
    /\ last # NoExchange
    /\ last.dispatched
    /\ last.command = "PATCH"
    /\ Status(last.wfile) = 501

\* C6: at most one connection's handler is running in any state, however many
\* clients are connected and waiting.
C6_OneAtATime == Cardinality(Open) <= 1

C6_Witness ==
    /\ Open # {}
    /\ pending >= 2

\* C7: while the server runs its listener is bound to 0.0.0.0 and the port of
\* -p/--port, 8080 without the flag, and the bound address never changes.
C7_BoundAddress ==
    /\ [](pc = "serving" =>
            server_address = <<"0.0.0.0", IF argv = <<>> THEN 8080 ELSE argv[2]>>)
    /\ [][pc = "serving" => server_address' = server_address]_vars

C7_Witness ==
    /\ pc = "serving"
    /\ argv = <<"-p", 9000>>
    /\ server_address = <<"0.0.0.0", 9000>>
    /\ last # NoExchange

\* C8 as stated: the headers of a response are none for POST and PUT and
\* exactly Set-Cookie: foo=bar for GET and DELETE.
C8_OnlyCookieHeader ==
    last # NoExchange =>
        /\ last.command \in {"POST", "PUT"} => ResponseHeaders(last.wfile) = <<>>
        /\ last.command \in {"GET", "DELETE"}
               => ResponseHeaders(last.wfile) = << <<"Set-Cookie", "foo=bar">> >>

\* C8, amended: the headers of a response to POST or PUT are exactly the two
\* send_response adds, Server and Date; for GET and DELETE they are those two
\* followed by exactly one more, Set-Cookie: foo=bar.
C8_StandardHeadersPlusCookie ==
    last # NoExchange =>
        /\ last.command \in {"POST", "PUT"}
               => HeaderNames(last.wfile) = <<"Server", "Date">>
        /\ last.command \in {"GET", "DELETE"}
               => /\ HeaderNames(last.wfile) = <<"Server", "Date", "Set-Cookie">>
                  /\ ResponseHeaders(last.wfile)[3] = <<"Set-Cookie", "foo=bar">>

C8_Witness ==
    /\ last # NoExchange
    /\ last.command = "GET"
    /\ Len(ResponseHeaders(last.wfile)) = 3

C10_OneRequestPerConnection ==
    /\ \A s \in Open :
         /\ handlers[s].handled <= 1
         /\ handlers[s].handled = 1 => handlers[s].close_connection
    /\ last # NoExchange => (last.nth = 1 /\ ~ last.raw.inBody)

C10_Witness ==
    \E s \in Open :
        /\ handlers[s].handled = 1
        /\ handlers[s].rfile # <<>>
        /\ Head(handlers[s].rfile) = Item("head", TRUE)
        /\ last # NoExchange
        /\ last.command \in {"POST", "PUT"}

====
